---- MODULE Spec2Model ----
(***************************************************************************)
(* Model of the u32 libfunc lowering of src/libfuncs/uint32.rs.            *)
(*                                                                         *)
(* The lowering routines are code generators: each appends operations to   *)
(* the entry block (and, for u32_from_felt252, to two fresh blocks) and    *)
(* ends the fragment through the LibfuncHelper.  The model has two layers: *)
(*   - the routines, as operators that compute the emitted blocks, the     *)
(*     helper calls made and the Result returned;                          *)
(*   - the execution of the emitted fragment on concrete argument values,  *)
(*     one operation per step, up to the exit edge the fragment leaves on. *)
(* Widths are scaled down: W stands for the 32 bits of u32 and FeltBits    *)
(* for the 252 bits of the felt252 backing integer.                        *)
(***************************************************************************)
EXTENDS Integers, Sequences, FiniteSets, TLC

\* Bit width of the bounded integer type (32 in the source, scaled).
W == 3
\* Bit width of the felt252 backing integer (252 in the source, scaled).
FeltBits == 5
\* Largest concrete value of the opaque range-check capability.
MaxRC == 1

RECURSIVE Pow2(_)
Pow2(n) == IF n = 0 THEN 1 ELSE 2 * Pow2(n - 1)

\* u32::MAX
UMax == Pow2(W) - 1
\* The field modulus: larger than every W-bit value, inside the backing integer.
Prime == Pow2(FeltBits - 1) + 3

UValues == 0 .. UMax
FeltValues == 0 .. (Prime - 1)
RCValues == 0 .. MaxRC

(***************************************************************************)
(* Types and their widths.                                                 *)
(***************************************************************************)
Bits(ty) ==
    CASE ty = "u32" -> W
      [] ty = "felt252" -> FeltBits
      [] ty = "i1" -> 1
      [] OTHER -> 0

(***************************************************************************)
(* SSA values: an argument of the entry block (0-based, as in the source)  *)
(* or result 0 of the i-th operation of block b.                           *)
(***************************************************************************)
Arg(i) == [k |-> "arg", b |-> 1, i |-> i]
Res(b, i) == [k |-> "res", b |-> b, i |-> i]

\* An exit edge or an internal edge of a terminator.
ToSucc(i, args) == [k |-> "succ", i |-> i, args |-> args]
ToBlock(b) == [k |-> "block", i |-> b, args |-> <<>>]

\* An operation of the target IR.
Op(name, operands, attr, pred, ty, dests) ==
    [name |-> name, operands |-> operands, attr |-> attr, pred |-> pred,
     ty |-> ty, dests |-> dests]

IsTerminator(op) == op.name \in {"cf.br", "cf.cond_br"}

\* Blocks of one fragment: 1 is the entry block, 2 and 3 the blocks that
\* helper.append_block adds, in the order of the calls.
EntryBlock == 1
BlockSuccess == 2
BlockFailure == 3

(***************************************************************************)
(* Decimal formatting and parsing of an integer attribute                  *)
(*   Attribute::parse(context, &format!("{value} : {ty}"))                 *)
(***************************************************************************)
RECURSIVE FormatDec(_)
FormatDec(n) == IF n < 10 THEN <<n>> ELSE Append(FormatDec(n \div 10), n % 10)

RECURSIVE ParseDec(_)
ParseDec(ds) ==
    IF Len(ds) = 0 THEN 0
    ELSE 10 * ParseDec(SubSeq(ds, 1, Len(ds) - 1)) + ds[Len(ds)]

\* The parsed attribute: the value when it fits the type's bits, else no
\* attribute (and the unwrap() of the source panics).
ParseAttr(ds, ty) ==
    LET n == ParseDec(ds)
    IN  IF n < Pow2(Bits(ty)) THEN [ok |-> TRUE, v |-> n] ELSE [ok |-> FALSE, v |-> 0]

(***************************************************************************)
(* The operations the routines emit.                                       *)
(***************************************************************************)
arith_constant(v, ty) == Op("arith.constant", <<>>, v, "", ty, <<>>)
arith_cmpi(pred, lhs, rhs) == Op("arith.cmpi", <<lhs, rhs>>, 0, pred, "i1", <<>>)
arith_divui(lhs, rhs, ty) == Op("arith.divui", <<lhs, rhs>>, 0, "", ty, <<>>)
arith_remui(lhs, rhs, ty) == Op("arith.remui", <<lhs, rhs>>, 0, "", ty, <<>>)
arith_extui(v, ty) == Op("arith.extui", <<v>>, 0, "", ty, <<>>)
arith_extsi(v, ty) == Op("arith.extsi", <<v>>, 0, "", ty, <<>>)
arith_trunci(v, ty) == Op("arith.trunci", <<v>>, 0, "", ty, <<>>)
llvm_intr(name, lhs, rhs) == Op(name, <<lhs, rhs>>, 0, "", "struct", <<>>)
llvm_extract_value(v, pos, ty) == Op("llvm.extractvalue", <<v>>, pos, "", ty, <<>>)
\* cf::cond_br(context, condition, true_block, false_block, [], [], location)
cf_cond_br(cond, true_block, false_block) ==
    Op("cf.cond_br", <<cond>>, 0, "", "", <<ToBlock(true_block), ToBlock(false_block)>>)

(***************************************************************************)
(* LibfuncHelper: br jumps to the libfunc's branch i with the results;     *)
(* cond_br jumps to branches[1] with results[1] when the condition is      *)
(* true and to branches[2] with results[2] when it is false.               *)
(***************************************************************************)
helper_br(i, results) ==
    Op("cf.br", <<>>, 0, "", "", <<ToSucc(i, results)>>)
helper_cond_br(cond, branches, results) ==
    Op("cf.cond_br", <<cond>>, 0, "", "",
       <<ToSucc(branches[1], results[1]), ToSucc(branches[2], results[2])>>)

\* The record of one call of the helper.
Call(fn, succs) == [fn |-> fn, succs |-> succs]

(***************************************************************************)
(* What a routine leaves behind: its Result, the blocks with the           *)
(* operations appended so far, and the helper calls it made.               *)
(***************************************************************************)
Built(routine, result, blocks, calls) ==
    [routine |-> <<routine>>, result |-> result, blocks |-> blocks, calls |-> calls]

\* entry.argument(i)? succeeds when the block has an argument i.
HasArg(entryArgs, i) == i < Len(entryArgs)
\* The type of an argument of the entry block.
ArgType(entryArgs, i) == entryArgs[i + 1]

(***************************************************************************)
(* build_const                                                             *)
(***************************************************************************)
build_const(entryArgs, typeOk, info) ==
    LET value == info.c
    IN  IF ~typeOk THEN Built("build_const", "Err", << <<>> >>, <<>>)
        ELSE LET value_ty == "u32"
                 attr == ParseAttr(FormatDec(value), value_ty)
             IN  IF ~attr.ok THEN Built("build_const", "panic", << <<>> >>, <<>>)
                 ELSE LET op0 == arith_constant(attr.v, value_ty)
                      IN  Built("build_const", "Ok",
                                << <<op0, helper_br(0, <<Res(EntryBlock, 1)>>)>> >>,
                                <<Call("br", <<0>>)>>)

(***************************************************************************)
(* build_operation                                                         *)
(***************************************************************************)
\* build_operation with the branches of the cond_br exchanged.
build_operation_swapped_branches(entryArgs, typeOk, info) ==
    IF ~(HasArg(entryArgs, 0) /\ HasArg(entryArgs, 1) /\ HasArg(entryArgs, 2))
    THEN Built("build_operation", "Err", << <<>> >>, <<>>)
    ELSE LET op_name == IF info.operator = "OverflowingAdd"
                        THEN "llvm.intr.uadd.with.overflow"
                        ELSE "llvm.intr.usub.with.overflow"
         IN  Built("build_operation", "Ok",
                   << << llvm_intr(op_name, Arg(1), Arg(2)),
                         llvm_extract_value(Res(EntryBlock, 1), 0, ArgType(entryArgs, 1)),
                         llvm_extract_value(Res(EntryBlock, 1), 1, "i1"),
                         helper_cond_br(Res(EntryBlock, 3), <<0, 1>>,
                                        << <<Arg(0), Res(EntryBlock, 2)>>,
                                           <<Arg(0), Res(EntryBlock, 2)>> >>) >> >>,
                   <<Call("cond_br", <<0, 1>>)>>)

build_operation(entryArgs, typeOk, info) ==
    IF ~(HasArg(entryArgs, 0) /\ HasArg(entryArgs, 1) /\ HasArg(entryArgs, 2))
    THEN Built("build_operation", "Err", << <<>> >>, <<>>)
    ELSE LET range_check == Arg(0)
             lhs == Arg(1)
             rhs == Arg(2)
             op_name == IF info.operator = "OverflowingAdd"
                        THEN "llvm.intr.uadd.with.overflow"
                        ELSE "llvm.intr.usub.with.overflow"
             values_type == ArgType(entryArgs, 1)
             result == Res(EntryBlock, 1)
             op_result == Res(EntryBlock, 2)
             op_overflow == Res(EntryBlock, 3)
         IN  Built("build_operation", "Ok",
                   << << llvm_intr(op_name, lhs, rhs),
                         llvm_extract_value(result, 0, values_type),
                         llvm_extract_value(result, 1, "i1"),
                         helper_cond_br(op_overflow, <<1, 0>>,
                                        << <<range_check, op_result>>,
                                           <<range_check, op_result>> >>) >> >>,
                   <<Call("cond_br", <<1, 0>>)>>)

(***************************************************************************)
(* build_equal                                                             *)
(***************************************************************************)
\* build_equal with the branches of the cond_br exchanged.
build_equal_swapped_branches(entryArgs, typeOk, info) ==
    IF ~(HasArg(entryArgs, 0) /\ HasArg(entryArgs, 1))
    THEN Built("build_equal", "Err", << <<>> >>, <<>>)
    ELSE Built("build_equal", "Ok",
               << << arith_cmpi("eq", Arg(0), Arg(1)),
                     helper_cond_br(Res(EntryBlock, 1), <<0, 1>>, << <<>>, <<>> >>) >> >>,
               <<Call("cond_br", <<0, 1>>)>>)

build_equal(entryArgs, typeOk, info) ==
    IF ~(HasArg(entryArgs, 0) /\ HasArg(entryArgs, 1))
    THEN Built("build_equal", "Err", << <<>> >>, <<>>)
    ELSE LET arg0 == Arg(0)
             arg1 == Arg(1)
             op0 == arith_cmpi("eq", arg0, arg1)
         IN  Built("build_equal", "Ok",
                   << << op0,
                         helper_cond_br(Res(EntryBlock, 1), <<1, 0>>,
                                        << <<>>, <<>> >>) >> >>,
                   <<Call("cond_br", <<1, 0>>)>>)

(***************************************************************************)
(* build_is_zero                                                           *)
(***************************************************************************)
\* build_is_zero with the results of the two branches exchanged.
build_is_zero_swapped_results(entryArgs, typeOk, info) ==
    IF ~HasArg(entryArgs, 0)
    THEN Built("build_is_zero", "Err", << <<>> >>, <<>>)
    ELSE Built("build_is_zero", "Ok",
               << << arith_constant(0, ArgType(entryArgs, 0)),
                     arith_cmpi("eq", Arg(0), Res(EntryBlock, 1)),
                     helper_cond_br(Res(EntryBlock, 2), <<0, 1>>,
                                    << <<Arg(0)>>, <<>> >>) >> >>,
               <<Call("cond_br", <<0, 1>>)>>)

\* build_is_zero comparing for inequality.
build_is_zero_inverted_condition(entryArgs, typeOk, info) ==
    IF ~HasArg(entryArgs, 0)
    THEN Built("build_is_zero", "Err", << <<>> >>, <<>>)
    ELSE Built("build_is_zero", "Ok",
               << << arith_constant(0, ArgType(entryArgs, 0)),
                     arith_cmpi("ne", Arg(0), Res(EntryBlock, 1)),
                     helper_cond_br(Res(EntryBlock, 2), <<0, 1>>,
                                    << <<>>, <<Arg(0)>> >>) >> >>,
               <<Call("cond_br", <<0, 1>>)>>)

build_is_zero(entryArgs, typeOk, info) ==
    IF ~HasArg(entryArgs, 0)
    THEN Built("build_is_zero", "Err", << <<>> >>, <<>>)
    ELSE LET arg0 == Arg(0)
             const_0 == Res(EntryBlock, 1)
             condition == Res(EntryBlock, 2)
         IN  Built("build_is_zero", "Ok",
                   << << arith_constant(0, ArgType(entryArgs, 0)),
                         arith_cmpi("eq", arg0, const_0),
                         helper_cond_br(condition, <<0, 1>>,
                                        << <<>>, <<arg0>> >>) >> >>,
                   <<Call("cond_br", <<0, 1>>)>>)

(***************************************************************************)
(* build_divmod                                                            *)
(***************************************************************************)
\* build_divmod with the operands of the remainder exchanged.
build_divmod_swapped_operands(entryArgs, typeOk, info) ==
    IF ~(HasArg(entryArgs, 0) /\ HasArg(entryArgs, 1) /\ HasArg(entryArgs, 2))
    THEN Built("build_divmod", "Err", << <<>> >>, <<>>)
    ELSE Built("build_divmod", "Ok",
               << << arith_divui(Arg(1), Arg(2), ArgType(entryArgs, 1)),
                     arith_remui(Arg(2), Arg(1), ArgType(entryArgs, 1)),
                     helper_br(0, <<Arg(0), Res(EntryBlock, 1), Res(EntryBlock, 2)>>) >> >>,
               <<Call("br", <<0>>)>>)

build_divmod(entryArgs, typeOk, info) ==
    IF ~(HasArg(entryArgs, 1) /\ HasArg(entryArgs, 2))
    THEN Built("build_divmod", "Err", << <<>> >>, <<>>)
    ELSE LET lhs == Arg(1)
             rhs == Arg(2)
             ty == ArgType(entryArgs, 1)
             result_div == Res(EntryBlock, 1)
             result_rem == Res(EntryBlock, 2)
             ops == <<arith_divui(lhs, rhs, ty), arith_remui(lhs, rhs, ty)>>
         IN  IF ~HasArg(entryArgs, 0)
             THEN Built("build_divmod", "Err", <<ops>>, <<>>)
             ELSE Built("build_divmod", "Ok",
                        <<Append(ops, helper_br(0, <<Arg(0), result_div, result_rem>>))>>,
                        <<Call("br", <<0>>)>>)

(***************************************************************************)
(* build_to_felt252                                                        *)
(***************************************************************************)
\* build_to_felt252 extending with the sign bit.
build_to_felt252_sign_extends(entryArgs, typeOk, info) ==
    IF ~typeOk \/ ~HasArg(entryArgs, 0)
    THEN Built("build_to_felt252", "Err", << <<>> >>, <<>>)
    ELSE Built("build_to_felt252", "Ok",
               << <<arith_extsi(Arg(0), "felt252"),
                    helper_br(0, <<Res(EntryBlock, 1)>>)>> >>,
               <<Call("br", <<0>>)>>)

build_to_felt252(entryArgs, typeOk, info) ==
    IF ~typeOk \/ ~HasArg(entryArgs, 0)
    THEN Built("build_to_felt252", "Err", << <<>> >>, <<>>)
    ELSE LET felt252_ty == "felt252"
             value == Arg(0)
             result == Res(EntryBlock, 1)
         IN  Built("build_to_felt252", "Ok",
                   << <<arith_extui(value, felt252_ty), helper_br(0, <<result>>)>> >>,
                   <<Call("br", <<0>>)>>)

(***************************************************************************)
(* build_from_felt252                                                      *)
(***************************************************************************)
\* build_from_felt252 with one change: the predicate of the comparison, the
\* results of the failure branch, or whether the failure block gets its br.
from_felt252_variant(entryArgs, typeOk, pred, failure_results, failure_br) ==
    IF ~(HasArg(entryArgs, 0) /\ HasArg(entryArgs, 1)) \/ ~typeOk
    THEN Built("build_from_felt252", "Err", << <<>> >>, <<>>)
    ELSE Built("build_from_felt252", "Ok",
               << << arith_constant(UMax, "felt252"),
                     arith_cmpi(pred, Arg(1), Res(EntryBlock, 1)),
                     cf_cond_br(Res(EntryBlock, 2), BlockSuccess, BlockFailure) >>,
                  << arith_trunci(Arg(1), "u32"),
                     helper_br(0, <<Arg(0), Res(BlockSuccess, 1)>>) >>,
                  IF failure_br THEN << helper_br(1, failure_results) >> ELSE <<>> >>,
               << Call("append_block", <<>>), Call("append_block", <<>>),
                  Call("br", <<0>>) >>
               \o (IF failure_br THEN <<Call("br", <<1>>)>> ELSE <<>>))

build_from_felt252_drops_capability(entryArgs, typeOk, info) ==
    from_felt252_variant(entryArgs, typeOk, "ule", <<>>, TRUE)

build_from_felt252_strict_bound(entryArgs, typeOk, info) ==
    from_felt252_variant(entryArgs, typeOk, "ult", <<Arg(0)>>, TRUE)

build_from_felt252_no_failure_exit(entryArgs, typeOk, info) ==
    from_felt252_variant(entryArgs, typeOk, "ule", <<Arg(0)>>, FALSE)

\* build_from_felt252 appending the truncation to the entry block, after
\* its cond_br, instead of to block_success.
build_from_felt252_trunc_in_entry(entryArgs, typeOk, info) ==
    IF ~(HasArg(entryArgs, 0) /\ HasArg(entryArgs, 1)) \/ ~typeOk
    THEN Built("build_from_felt252", "Err", << <<>> >>, <<>>)
    ELSE Built("build_from_felt252", "Ok",
               << << arith_constant(UMax, "felt252"),
                     arith_cmpi("ule", Arg(1), Res(EntryBlock, 1)),
                     cf_cond_br(Res(EntryBlock, 2), BlockSuccess, BlockFailure),
                     arith_trunci(Arg(1), "u32") >>,
                  << helper_br(0, <<Arg(0), Res(EntryBlock, 4)>>) >>,
                  << helper_br(1, <<Arg(0)>>) >> >>,
               << Call("append_block", <<>>), Call("append_block", <<>>),
                  Call("br", <<0>>), Call("br", <<1>>) >>)

build_from_felt252(entryArgs, typeOk, info) ==
    IF ~(HasArg(entryArgs, 0) /\ HasArg(entryArgs, 1)) \/ ~typeOk
    THEN Built("build_from_felt252", "Err", << <<>> >>, <<>>)
    ELSE LET range_check == Arg(0)
             value == Arg(1)
             felt252_ty == "felt252"
             result_ty == "u32"
             attr == ParseAttr(FormatDec(UMax), felt252_ty)
         IN  IF ~attr.ok THEN Built("build_from_felt252", "panic", << <<>> >>, <<>>)
             ELSE LET const_max == Res(EntryBlock, 1)
                      is_ule == Res(EntryBlock, 2)
                      truncated == Res(BlockSuccess, 1)
                  IN  Built("build_from_felt252", "Ok",
                            << << arith_constant(attr.v, felt252_ty),
                                  arith_cmpi("ule", value, const_max),
                                  cf_cond_br(is_ule, BlockSuccess, BlockFailure) >>,
                               << arith_trunci(value, result_ty),
                                  helper_br(0, <<range_check, truncated>>) >>,
                               << helper_br(1, <<range_check>>) >> >>,
                            << Call("append_block", <<>>), Call("append_block", <<>>),
                               Call("br", <<0>>), Call("br", <<1>>) >>)

(***************************************************************************)
(* build: the dispatcher.  todo!() aborts before any routine runs.         *)
(***************************************************************************)
Aborted == [routine |-> <<>>, result |-> "panic", blocks |-> << <<>> >>, calls |-> <<>>]

\* build with the IsZero arm calling build_equal.
build_misrouted(entryArgs, typeOk, selector) ==
    CASE selector.kind = "Const" -> build_const(entryArgs, typeOk, selector)
      [] selector.kind = "Operation" -> build_operation(entryArgs, typeOk, selector)
      [] selector.kind = "SquareRoot" -> Aborted
      [] selector.kind = "Equal" -> build_equal(entryArgs, typeOk, selector)
      [] selector.kind = "ToFelt252" -> build_to_felt252(entryArgs, typeOk, selector)
      [] selector.kind = "FromFelt252" -> build_from_felt252(entryArgs, typeOk, selector)
      [] selector.kind = "IsZero" -> build_equal(entryArgs, typeOk, selector)
      [] selector.kind = "Divmod" -> build_divmod(entryArgs, typeOk, selector)
      [] selector.kind = "WideMul" -> Aborted

build(entryArgs, typeOk, selector) ==
    CASE selector.kind = "Const" -> build_const(entryArgs, typeOk, selector)
      [] selector.kind = "Operation" -> build_operation(entryArgs, typeOk, selector)
      [] selector.kind = "SquareRoot" -> Aborted
      [] selector.kind = "Equal" -> build_equal(entryArgs, typeOk, selector)
      [] selector.kind = "ToFelt252" -> build_to_felt252(entryArgs, typeOk, selector)
      [] selector.kind = "FromFelt252" -> build_from_felt252(entryArgs, typeOk, selector)
      [] selector.kind = "IsZero" -> build_is_zero(entryArgs, typeOk, selector)
      [] selector.kind = "Divmod" -> build_divmod(entryArgs, typeOk, selector)
      [] selector.kind = "WideMul" -> Aborted

(***************************************************************************)
(* The libfuncs' signatures: the parameter types the driver gives the      *)
(* entry block, and the number of branches.                                *)
(***************************************************************************)
ParamTypes(kind) ==
    CASE kind = "Const" -> <<>>
      [] kind = "Operation" -> <<"RangeCheck", "u32", "u32">>
      [] kind = "SquareRoot" -> <<"RangeCheck", "u32">>
      [] kind = "Equal" -> <<"u32", "u32">>
      [] kind = "ToFelt252" -> <<"u32">>
      [] kind = "FromFelt252" -> <<"RangeCheck", "felt252">>
      [] kind = "IsZero" -> <<"u32">>
      [] kind = "Divmod" -> <<"RangeCheck", "u32", "u32">>
      [] kind = "WideMul" -> <<"u32", "u32">>

BranchCount(kind) ==
    IF kind \in {"Operation", "Equal", "FromFelt252", "IsZero"} THEN 2 ELSE 1

Kinds ==
    {"Const", "Operation", "SquareRoot", "Equal", "ToFelt252", "FromFelt252",
     "IsZero", "Divmod", "WideMul"}

Sel(kind, operator, c) == [kind |-> kind, operator |-> operator, c |-> c]

Selectors ==
    {Sel("Const", "", c) : c \in UValues}
    \cup {Sel("Operation", o, 0) : o \in {"OverflowingAdd", "OverflowingSub"}}
    \cup {Sel(k, "", 0) : k \in Kinds \ {"Const", "Operation"}}

(***************************************************************************)
(* Run-time values: a type, its bits as a number, and for the pair of the  *)
(* with-overflow intrinsics the flag.                                      *)
(***************************************************************************)
Val(ty, v) == [ty |-> ty, v |-> v, f |-> 0]
Pair(v, f) == [ty |-> "struct", v |-> v, f |-> f]
Trap == [ty |-> "trap", v |-> 0, f |-> 0]

ValuesOf(ty) ==
    CASE ty = "u32" -> {Val(ty, n) : n \in UValues}
      [] ty = "felt252" -> {Val(ty, n) : n \in FeltValues}
      [] ty = "RangeCheck" -> {Val(ty, n) : n \in RCValues}

RECURSIVE ArgTuples(_)
ArgTuples(tys) ==
    IF Len(tys) = 0 THEN {<<>>}
    ELSE {Append(t, x) : t \in ArgTuples(SubSeq(tys, 1, Len(tys) - 1)),
                         x \in ValuesOf(tys[Len(tys)])}

(***************************************************************************)
(* Bit-level meaning of the emitted operations.                            *)
(***************************************************************************)
RECURSIVE ToBits(_, _)
ToBits(n, w) == IF w = 0 THEN <<>> ELSE <<n % 2>> \o ToBits(n \div 2, w - 1)

RECURSIVE FromBits(_)
FromBits(bs) == IF Len(bs) = 0 THEN 0 ELSE bs[1] + 2 * FromBits(Tail(bs))

\* Ripple-carry addition of the low n bits: the sum bits and the carry out.
RECURSIVE AddCarry(_, _, _, _)
AddCarry(a, b, c, n) ==
    IF n = 0 THEN [v |-> 0, c |-> c]
    ELSE LET s == (a % 2) + (b % 2) + c
             rest == AddCarry(a \div 2, b \div 2, s \div 2, n - 1)
         IN  [v |-> (s % 2) + 2 * rest.v, c |-> rest.c]

\* Ripple-borrow subtraction of the low n bits: the difference bits and the
\* borrow out.
RECURSIVE SubBorrow(_, _, _, _)
SubBorrow(a, b, c, n) ==
    IF n = 0 THEN [v |-> 0, c |-> c]
    ELSE LET d == (a % 2) - (b % 2) - c
             rest == SubBorrow(a \div 2, b \div 2, IF d < 0 THEN 1 ELSE 0, n - 1)
         IN  [v |-> ((d + 2) % 2) + 2 * rest.v, c |-> rest.c]

ZeroExtend(v, from, to) == FromBits(ToBits(v, from) \o [i \in 1 .. (to - from) |-> 0])
SignExtend(v, from, to) ==
    FromBits(ToBits(v, from) \o [i \in 1 .. (to - from) |-> ToBits(v, from)[from]])
Truncate(v, from, to) == FromBits(SubSeq(ToBits(v, from), 1, to))

\* The results an operation can produce on operand values xs.  Unsigned
\* division and remainder by zero are undefined: any value, or a trap.
Outcomes(op, xs) ==
    CASE op.name = "arith.constant" -> {Val(op.ty, op.attr)}
      [] op.name = "llvm.intr.uadd.with.overflow" ->
            LET r == AddCarry(xs[1].v, xs[2].v, 0, Bits(xs[1].ty)) IN {Pair(r.v, r.c)}
      [] op.name = "llvm.intr.usub.with.overflow" ->
            LET r == SubBorrow(xs[1].v, xs[2].v, 0, Bits(xs[1].ty)) IN {Pair(r.v, r.c)}
      [] op.name = "llvm.extractvalue" ->
            {Val(op.ty, IF op.attr = 0 THEN xs[1].v ELSE xs[1].f)}
      [] op.name = "arith.cmpi" ->
            {Val("i1", CASE op.pred = "eq" -> IF xs[1].v = xs[2].v THEN 1 ELSE 0
                         [] op.pred = "ne" -> IF xs[1].v # xs[2].v THEN 1 ELSE 0
                         [] op.pred = "ult" -> IF xs[1].v < xs[2].v THEN 1 ELSE 0
                         [] op.pred = "ule" -> IF xs[1].v <= xs[2].v THEN 1 ELSE 0)}
      [] op.name = "arith.divui" ->
            IF xs[2].v = 0 THEN {Val(op.ty, n) : n \in 0 .. (Pow2(Bits(op.ty)) - 1)} \cup {Trap}
            ELSE {Val(op.ty, xs[1].v \div xs[2].v)}
      [] op.name = "arith.remui" ->
            IF xs[2].v = 0 THEN {Val(op.ty, n) : n \in 0 .. (Pow2(Bits(op.ty)) - 1)} \cup {Trap}
            ELSE {Val(op.ty, xs[1].v % xs[2].v)}
      [] op.name = "arith.extui" ->
            {Val(op.ty, ZeroExtend(xs[1].v, Bits(xs[1].ty), Bits(op.ty)))}
      [] op.name = "arith.extsi" ->
            {Val(op.ty, SignExtend(xs[1].v, Bits(xs[1].ty), Bits(op.ty)))}
      [] op.name = "arith.trunci" ->
            {Val(op.ty, Truncate(xs[1].v, Bits(xs[1].ty), Bits(op.ty)))}

(***************************************************************************)
(* State.                                                                  *)
(***************************************************************************)
VARIABLES
    selector,    \* the Uint32Concrete being lowered
    typeOk,      \* whether registry.get_type(..)?.build(..)? succeeds
    entryArgs,   \* the types of the entry block's arguments
    argv,        \* the run-time values of the entry block's arguments
    phase,       \* ready, run, exited, failed, aborted, trapped
    result,      \* the Result of build: none, Ok, Err, panic
    invoked,     \* the lowering routines build called
    blocks,      \* the operations of each block of the fragment
    calls,       \* the LibfuncHelper calls made
    pc,          \* the block and the position of the next operation to execute
    vals,        \* per block, the results of the operations executed
    executed,    \* the names of the operations executed, in order
    exit,        \* the exit edge taken: successor index and argument values
    driver       \* the position of the surrounding program (is_zero then divmod)

vars ==
    <<selector, typeOk, entryArgs, argv, phase, result, invoked, blocks, calls,
      pc, vals, executed, exit, driver>>

NoExit == [taken |-> FALSE, succ |-> 0, args |-> <<>>]
\* The surrounding program: its position, the values it holds for the
\* statements to come, and how it ended.
Driver(prog, stage, rc, lhs, rhs, outcome, q, r) ==
    [prog |-> prog, stage |-> stage, rc |-> rc, lhs |-> lhs, rhs |-> rhs,
     outcome |-> outcome, q |-> q, r |-> r]
\* One libfunc lowered and run on its own.
Single == Driver("single", "single", 0, 0, 0, "none", 0, 0)

\* A fresh invocation of build on one libfunc.
Fresh ==
    /\ phase = "ready"
    /\ result = "none"
    /\ invoked = <<>>
    /\ blocks = << <<>> >>
    /\ calls = <<>>
    /\ pc = [b |-> EntryBlock, i |-> 1]
    /\ vals = << <<>> >>
    /\ executed = <<>>
    /\ exit = NoExit

Init ==
    /\ selector \in Selectors
    /\ typeOk \in BOOLEAN
    /\ entryArgs = ParamTypes(selector.kind)
    /\ argv \in ArgTuples(entryArgs)
    /\ Fresh
    /\ driver = Single

(***************************************************************************)
(* Build: the driver calls build once for the libfunc.                     *)
(***************************************************************************)
Build ==
    /\ phase = "ready"
    /\ LET r == build(entryArgs, typeOk, selector)
       IN  /\ result' = r.result
           /\ invoked' = r.routine
           /\ blocks' = r.blocks
           /\ calls' = r.calls
           /\ vals' = [b \in 1 .. Len(r.blocks) |-> <<>>]
           /\ phase' = CASE r.result = "Ok" -> "run"
                         [] r.result = "Err" -> "failed"
                         [] OTHER -> "aborted"
    /\ UNCHANGED <<selector, typeOk, entryArgs, argv, pc, executed, exit, driver>>

(***************************************************************************)
(* Execution of the emitted fragment.                                      *)
(***************************************************************************)
Lookup(x) == IF x.k = "arg" THEN argv[x.i + 1] ELSE vals[x.b][x.i]
Operands(op) == [j \in 1 .. Len(op.operands) |-> Lookup(op.operands[j])]
CurrentOp == blocks[pc.b][pc.i]
AtOp == phase = "run" /\ pc.i <= Len(blocks[pc.b])

ExecOp ==
    /\ AtOp
    /\ ~IsTerminator(CurrentOp)
    /\ \E out \in Outcomes(CurrentOp, Operands(CurrentOp)) :
          /\ executed' = Append(executed, CurrentOp.name)
          /\ IF out = Trap
             THEN /\ phase' = "trapped"
                  /\ UNCHANGED <<vals, pc>>
             ELSE /\ vals' = [vals EXCEPT ![pc.b] = Append(@, out)]
                  /\ pc' = [pc EXCEPT !.i = @ + 1]
                  /\ UNCHANGED phase
    /\ UNCHANGED <<selector, typeOk, entryArgs, argv, result, invoked, blocks,
                   calls, exit, driver>>

ExecTerminator ==
    /\ AtOp
    /\ IsTerminator(CurrentOp)
    /\ LET op == CurrentOp
           dest == IF op.name = "cf.br" THEN op.dests[1]
                   ELSE IF Lookup(op.operands[1]).v = 1 THEN op.dests[1]
                   ELSE op.dests[2]
       IN  /\ executed' = Append(executed, op.name)
           /\ IF dest.k = "block"
              THEN /\ pc' = [b |-> dest.i, i |-> 1]
                   /\ UNCHANGED <<phase, exit>>
              ELSE /\ exit' = [taken |-> TRUE, succ |-> dest.i,
                               args |-> [j \in 1 .. Len(dest.args) |-> Lookup(dest.args[j])]]
                   /\ phase' = "exited"
                   /\ UNCHANGED pc
    /\ UNCHANGED <<selector, typeOk, entryArgs, argv, result, invoked, blocks,
                   calls, vals, driver>>

Next == Build \/ ExecOp \/ ExecTerminator

Spec == Init /\ [][Next]_vars

(***************************************************************************)
(* The surrounding program composing libfuncs, as the tests' programs do:  *)
(*   divmod:    lhs / rhs, lhs % rhs - u32_is_zero on the divisor, then    *)
(*              u32_safe_divmod from the non-zero branch (branch 1, whose  *)
(*              variable is the NonZero<u32>), and a panic from the zero   *)
(*              branch;                                                    *)
(*   roundtrip: u32_to_felt252 on a value, then u32_from_felt252 on the    *)
(*              felt252 it produced.                                       *)
(* Each libfunc is lowered by build and its fragment executed.             *)
(***************************************************************************)
DriverInit ==
    /\ \E rc \in RCValues, lhs \in UValues, rhs \in UValues :
          \/ /\ driver = Driver("divmod", "is_zero", rc, lhs, rhs, "none", 0, 0)
             /\ selector = Sel("IsZero", "", 0)
             /\ argv = <<Val("u32", rhs)>>
          \/ /\ rhs = 0
             /\ driver = Driver("roundtrip", "widen", rc, lhs, rhs, "none", 0, 0)
             /\ selector = Sel("ToFelt252", "", 0)
             /\ argv = <<Val("u32", lhs)>>
    /\ typeOk = TRUE
    /\ entryArgs = ParamTypes(selector.kind)
    /\ Fresh

\* The program goes on to its next libfunc, on fresh blocks.
StartFragment(kind, args, stage) ==
    /\ selector' = Sel(kind, "", 0)
    /\ entryArgs' = ParamTypes(kind)
    /\ argv' = args
    /\ driver' = [driver EXCEPT !.stage = stage]
    /\ phase' = "ready"
    /\ result' = "none"
    /\ invoked' = <<>>
    /\ blocks' = << <<>> >>
    /\ calls' = <<>>
    /\ pc' = [b |-> EntryBlock, i |-> 1]
    /\ vals' = << <<>> >>
    /\ executed' = <<>>
    /\ exit' = NoExit

\* The program ends.
Finish(outcome, q, r) ==
    /\ driver' = [driver EXCEPT !.stage = "done", !.outcome = outcome, !.q = q, !.r = r]
    /\ UNCHANGED <<selector, entryArgs, argv, phase, result, invoked, blocks, calls,
                   pc, vals, executed, exit>>

DriverContinue ==
    /\ phase = "exited"
    /\ driver.stage \in {"is_zero", "divmod", "widen", "narrow"}
    /\ CASE driver.stage = "is_zero" ->
              IF exit.succ = 1 /\ Len(exit.args) = 1
              THEN StartFragment("Divmod",
                                 <<Val("RangeCheck", driver.rc), Val("u32", driver.lhs),
                                   exit.args[1]>>,
                                 "divmod")
              ELSE Finish("failure", 0, 0)
         [] driver.stage = "divmod" ->
              IF exit.succ = 0 /\ Len(exit.args) = 3
              THEN Finish("success", exit.args[2].v, exit.args[3].v)
              ELSE Finish("failure", 0, 0)
         [] driver.stage = "widen" ->
              IF exit.succ = 0 /\ Len(exit.args) = 1
              THEN StartFragment("FromFelt252",
                                 <<Val("RangeCheck", driver.rc), exit.args[1]>>,
                                 "narrow")
              ELSE Finish("failure", 0, 0)
         [] driver.stage = "narrow" ->
              IF exit.succ = 0 /\ Len(exit.args) = 2
              THEN Finish("success", exit.args[2].v, 0)
              ELSE Finish("failure", 0, 0)
    /\ UNCHANGED typeOk

DriverNext == Build \/ ExecOp \/ ExecTerminator \/ DriverContinue

\* Lowering and the execution of the emitted code run to completion.
DriverSpec == DriverInit /\ [][DriverNext]_vars /\ WF_vars(DriverNext)

(***************************************************************************)
(* Views of the state the properties read.                                 *)
(***************************************************************************)
Lowered == phase # "ready" /\ result = "Ok"
Left(kind) == phase = "exited" /\ selector.kind = kind

\* The edges of the terminators of block b.
Dests(b) ==
    UNION {{blocks[b][i].dests[j] : j \in 1 .. Len(blocks[b][i].dests)} :
           i \in 1 .. Len(blocks[b])}

\* The blocks control can reach from the entry block.
RECURSIVE ReachFrom(_)
ReachFrom(bs) ==
    LET more == bs \cup {e.i : e \in {d \in UNION {Dests(b) : b \in bs} : d.k = "block"}}
    IN  IF more = bs THEN bs ELSE ReachFrom(more)

Reachable == ReachFrom({EntryBlock})

\* The exit edges of the fragment: the edges to the libfunc's branches.
ExitEdges == {d \in UNION {Dests(b) : b \in Reachable} : d.k = "succ"}

\* The type of an SSA value of the fragment.
TypeOf(x) == IF x.k = "arg" THEN entryArgs[x.i + 1] ELSE blocks[x.b][x.i].ty

Count(xs, x) == Cardinality({j \in 1 .. Len(xs) : xs[j] = x})
CountType(xs, ty) == Cardinality({j \in 1 .. Len(xs) : xs[j].ty = ty})

U(n) == Val("u32", n)
Mod2W(n) == (n + Pow2(W)) % Pow2(W)

(***************************************************************************)
(* C1: Overflowing-Arithmetic carries (a+b) mod 2^W for add and            *)
(* (a-b) mod 2^W for subtract as its result value on the edge it leaves    *)
(* on, and leaves on successor 1 exactly when a+b >= 2^W (add) or a-b < 0  *)
(* (subtract), else on successor 0; the fragment always reaches an exit.   *)
(***************************************************************************)
C1_OverflowingArithmetic ==
    selector.kind = "Operation" =>
        /\ phase \in {"ready", "run", "exited"}
        /\ phase = "exited" =>
              LET a == argv[2].v
                  b == argv[3].v
                  add == selector.operator = "OverflowingAdd"
                  exact == IF add THEN a + b ELSE a - b
              IN  /\ Len(exit.args) = 2
                  /\ exit.args[2] = U(Mod2W(exact))
                  /\ exit.succ = IF exact >= Pow2(W) \/ exact < 0 THEN 1 ELSE 0

\* Add(2^W-1, 1) has left on the overflow successor with result 0.
C1_Witness ==
    /\ Left("Operation")
    /\ selector.operator = "OverflowingAdd"
    /\ argv[2] = U(UMax) /\ argv[3] = U(1)
    /\ exit.succ = 1 /\ exit.args[2] = U(0)

(***************************************************************************)
(* C2: in the routines that take the range-check capability                *)
(* (Operation, Divmod, FromFelt252) every exit edge reachable from the     *)
(* entry block carries block argument 0, the capability, exactly once and  *)
(* first; the other routines put no capability on any exit edge.  The      *)
(* same holds of the values on the edge an execution leaves on.            *)
(***************************************************************************)
CapabilityKinds == {"Operation", "Divmod", "FromFelt252"}

C2_CapabilityThreading ==
    /\ Lowered =>
          IF selector.kind \in CapabilityKinds
          THEN /\ TypeOf(Arg(0)) = "RangeCheck"
               /\ ExitEdges # {}
               /\ \A e \in ExitEdges :
                     /\ Len(e.args) >= 1
                     /\ e.args[1] = Arg(0)
                     /\ Count(e.args, Arg(0)) = 1
                     /\ \A j \in 2 .. Len(e.args) : TypeOf(e.args[j]) # "RangeCheck"
          ELSE \A e \in ExitEdges :
                  \A j \in 1 .. Len(e.args) : TypeOf(e.args[j]) # "RangeCheck"
    /\ phase = "exited" =>
          IF selector.kind \in CapabilityKinds
          THEN /\ Len(exit.args) >= 1
               /\ exit.args[1] = argv[1]
               /\ CountType(exit.args, "RangeCheck") = 1
          ELSE CountType(exit.args, "RangeCheck") = 0

\* u32_from_felt252 has left on its failure branch with the capability alone.
C2_Witness ==
    /\ Left("FromFelt252")
    /\ exit.succ = 1
    /\ exit.args = <<argv[1]>>
    /\ argv[1] = Val("RangeCheck", MaxRC)

(***************************************************************************)
(* C3 as stated: Equality leaves on successor 0 when a = b and on          *)
(* successor 1 when a # b, with no arguments on either edge.               *)
(***************************************************************************)
C3_Original ==
    Left("Equal") =>
        /\ exit.succ = IF argv[1].v = argv[2].v THEN 0 ELSE 1
        /\ exit.args = <<>>

(***************************************************************************)
(* C3 amended: Equality leaves on successor 1 when a = b and on successor  *)
(* 0 when a # b, with no arguments on either edge.                         *)
(***************************************************************************)
C3_EqualityBranches ==
    selector.kind = "Equal" =>
        /\ phase \in {"ready", "run", "exited"}
        /\ phase = "exited" =>
              /\ exit.succ = IF argv[1].v = argv[2].v THEN 1 ELSE 0
              /\ exit.args = <<>>

\* Two equal operands have left on successor 1.
C3_Witness ==
    /\ Left("Equal")
    /\ argv[1] = U(UMax) /\ argv[2] = U(UMax)
    /\ exit.succ = 1

(***************************************************************************)
(* C4 as stated: Is-Zero leaves on successor 0 carrying v when v # 0 and   *)
(* on successor 1 carrying nothing when v = 0.                             *)
(***************************************************************************)
C4_Original ==
    Left("IsZero") =>
        IF argv[1].v # 0
        THEN exit.succ = 0 /\ exit.args = <<argv[1]>>
        ELSE exit.succ = 1 /\ exit.args = <<>>

(***************************************************************************)
(* C4 amended: Is-Zero leaves on successor 0 carrying nothing when v = 0   *)
(* and on successor 1 carrying exactly v when v # 0.                       *)
(***************************************************************************)
C4_IsZeroBranches ==
    selector.kind = "IsZero" =>
        /\ phase \in {"ready", "run", "exited"}
        /\ phase = "exited" =>
              IF argv[1].v = 0
              THEN exit.succ = 0 /\ exit.args = <<>>
              ELSE exit.succ = 1 /\ exit.args = <<argv[1]>>

\* A non-zero value has left on successor 1, carried unchanged.
C4_Witness ==
    /\ Left("IsZero")
    /\ argv[1] = U(UMax)
    /\ exit.succ = 1 /\ exit.args = <<U(UMax)>>

(***************************************************************************)
(* C5: for every dividend a and non-zero divisor b, Checked-Divmod ends    *)
(* in one unconditional edge to successor 0 carrying (capability, q, r)    *)
(* with q*b + r = a and 0 <= r < b, and the execution never traps.         *)
(***************************************************************************)
C5_Divmod ==
    (selector.kind = "Divmod" /\ argv[3].v # 0) =>
        /\ phase \in {"ready", "run", "exited"}
        /\ Lowered =>
              /\ Len(blocks) = 1
              /\ blocks[EntryBlock][Len(blocks[EntryBlock])].name = "cf.br"
              /\ Cardinality(ExitEdges) = 1
        /\ phase = "exited" =>
              LET a == argv[2].v
                  b == argv[3].v
              IN  /\ exit.succ = 0
                  /\ Len(exit.args) = 3
                  /\ exit.args[1] = argv[1]
                  /\ exit.args[2].ty = "u32" /\ exit.args[3].ty = "u32"
                  /\ exit.args[2].v * b + exit.args[3].v = a
                  /\ 0 <= exit.args[3].v /\ exit.args[3].v < b

\* Divmod(2^W-1, 2) has left with the quotient and the remainder 1.
C5_Witness ==
    /\ Left("Divmod")
    /\ argv[2] = U(UMax) /\ argv[3] = U(2)
    /\ exit.args = <<argv[1], U((UMax - 1) \div 2), U(1)>>

(***************************************************************************)
(* C7: Narrow-from-Field leaves on successor 0 carrying (capability, x     *)
(* truncated to W bits) exactly when x <= 2^W - 1, and the truncated value *)
(* then equals x; for x >= 2^W it leaves on successor 1 carrying the       *)
(* capability alone, and the truncation is not executed on that path.      *)
(***************************************************************************)
C7_NarrowRangeCheck ==
    (selector.kind = "FromFelt252" /\ typeOk) =>
        /\ phase \in {"ready", "run", "exited"}
        /\ phase = "exited" =>
              LET x == argv[2].v
              IN  /\ exit.succ = 0 <=> x <= Pow2(W) - 1
                  /\ x <= Pow2(W) - 1 =>
                        /\ exit.args = <<argv[1], U(x)>>
                        /\ "arith.trunci" \in {executed[j] : j \in 1 .. Len(executed)}
                  /\ x >= Pow2(W) =>
                        /\ exit.succ = 1
                        /\ exit.args = <<argv[1]>>
                        /\ "arith.trunci" \notin {executed[j] : j \in 1 .. Len(executed)}

\* Narrow(2^W) has left on the failure branch.
C7_Witness ==
    /\ Left("FromFelt252")
    /\ argv[2] = Val("felt252", Pow2(W))
    /\ exit.succ = 1 /\ exit.args = <<argv[1]>>

\* Narrow(2^W - 1) has left on the success branch with 2^W - 1.
C7_WitnessMax ==
    /\ Left("FromFelt252")
    /\ argv[2] = Val("felt252", Pow2(W) - 1)
    /\ exit.succ = 0 /\ exit.args = <<argv[1], U(Pow2(W) - 1)>>

(***************************************************************************)
(* The calls of the Block-Exit Helper (br, cond_br) among the helper calls *)
(* of one invocation, and the terminators they built.                      *)
(***************************************************************************)
IsExitCall(c) == c.fn \in {"br", "cond_br"}
ExitCalls == SelectSeq(calls, IsExitCall)
ExitTerminators ==
    UNION {{<<b, i>> : i \in {n \in 1 .. Len(blocks[b]) :
                                \E j \in 1 .. Len(blocks[b][n].dests) :
                                    blocks[b][n].dests[j].k = "succ"}} :
           b \in 1 .. Len(blocks)}
Implemented == Kinds \ {"SquareRoot", "WideMul"}

\* One call that names a single unconditional successor or exactly n of them.
ExitShape(c, n) ==
    \/ c.fn = "br" /\ Len(c.succs) = 1
    \/ c.fn = "cond_br" /\ Len(c.succs) = n

(***************************************************************************)
(* C8 as stated: every routine that returns Ok has called the Block-Exit   *)
(* Helper exactly once, naming a single unconditional successor or exactly *)
(* N successors, N the number of branches of the libfunc's signature.      *)
(***************************************************************************)
C8_Original ==
    (Lowered /\ selector.kind \in Implemented) =>
        /\ Len(ExitCalls) = 1
        /\ ExitShape(ExitCalls[1], BranchCount(selector.kind))

(***************************************************************************)
(* C8 amended: every routine but Narrow-from-Field that returns Ok has     *)
(* called the Block-Exit Helper exactly once: a br naming one successor    *)
(* for Constant, Divmod and Widen (N = 1), a cond_br naming N = 2          *)
(* successors for Overflowing-Arithmetic, Equality and Is-Zero.            *)
(* Narrow-from-Field has called it twice, a br naming successor 0 ending   *)
(* its success block and a br naming successor 1 ending its failure block. *)
(* Each call built one terminator of the fragment.                         *)
(***************************************************************************)
C8_ExitHelperCalls ==
    (Lowered /\ selector.kind \in Implemented) =>
        /\ Cardinality(ExitTerminators) = Len(ExitCalls)
        /\ IF selector.kind # "FromFelt252"
           THEN /\ Len(ExitCalls) = 1
                /\ ExitShape(ExitCalls[1], BranchCount(selector.kind))
                /\ Len(ExitCalls[1].succs) = BranchCount(selector.kind)
                /\ {ExitCalls[1].succs[j] : j \in 1 .. Len(ExitCalls[1].succs)}
                      = 0 .. (BranchCount(selector.kind) - 1)
                /\ ExitTerminators = {<<EntryBlock, Len(blocks[EntryBlock])>>}
           ELSE /\ ExitCalls = <<Call("br", <<0>>), Call("br", <<1>>)>>
                /\ ExitTerminators = {<<BlockSuccess, Len(blocks[BlockSuccess])>>,
                                      <<BlockFailure, Len(blocks[BlockFailure])>>}
                /\ blocks[BlockSuccess][Len(blocks[BlockSuccess])].dests[1].i = 0
                /\ blocks[BlockFailure][Len(blocks[BlockFailure])].dests[1].i = 1

\* u32_from_felt252 has returned Ok after two br calls of the helper.
C8_Witness ==
    /\ Lowered
    /\ selector.kind = "FromFelt252"
    /\ Len(ExitCalls) = 2
    /\ Len(calls) = 4

(***************************************************************************)
(* C9: for each implemented kind build invokes exactly one routine, the    *)
(* one for that kind, and what it returns and leaves in the blocks is what *)
(* that routine returns and leaves: Ok or the routine's Err.  For          *)
(* SquareRoot and WideMul it aborts, with no routine invoked, no helper    *)
(* call made and nothing appended to the entry block.                      *)
(***************************************************************************)
RoutineOf(kind) ==
    CASE kind = "Const" -> "build_const"
      [] kind = "Operation" -> "build_operation"
      [] kind = "Equal" -> "build_equal"
      [] kind = "ToFelt252" -> "build_to_felt252"
      [] kind = "FromFelt252" -> "build_from_felt252"
      [] kind = "IsZero" -> "build_is_zero"
      [] kind = "Divmod" -> "build_divmod"

RunRoutine(name) ==
    CASE name = "build_const" -> build_const(entryArgs, typeOk, selector)
      [] name = "build_operation" -> build_operation(entryArgs, typeOk, selector)
      [] name = "build_equal" -> build_equal(entryArgs, typeOk, selector)
      [] name = "build_to_felt252" -> build_to_felt252(entryArgs, typeOk, selector)
      [] name = "build_from_felt252" -> build_from_felt252(entryArgs, typeOk, selector)
      [] name = "build_is_zero" -> build_is_zero(entryArgs, typeOk, selector)
      [] name = "build_divmod" -> build_divmod(entryArgs, typeOk, selector)

C9_Dispatcher ==
    phase # "ready" =>
        IF selector.kind \in Implemented
        THEN /\ invoked = <<RoutineOf(selector.kind)>>
             /\ result \in {"Ok", "Err"}
             /\ result = RunRoutine(invoked[1]).result
             /\ blocks = RunRoutine(invoked[1]).blocks
             /\ calls = RunRoutine(invoked[1]).calls
             /\ phase # "aborted"
        ELSE /\ phase = "aborted"
             /\ result = "panic"
             /\ invoked = <<>>
             /\ calls = <<>>
             /\ blocks = << <<>> >>

\* build has returned the Err of build_const, the one routine it invoked.
C9_Witness ==
    /\ selector.kind = "Const"
    /\ phase = "failed"
    /\ result = "Err"
    /\ invoked = <<"build_const">>

\* build has aborted on WideMul with the entry block still empty.
C9_WitnessAbort ==
    /\ selector.kind = "WideMul"
    /\ phase = "aborted"
    /\ blocks = << <<>> >>

(***************************************************************************)
(* C6: for every W-bit value v, Widen-to-Field followed by                 *)
(* Narrow-from-Field on the widened value leaves Narrow on its success     *)
(* successor 0, and the value carried on that edge is v.                   *)
(***************************************************************************)
C6_WidenNarrowRoundTrip ==
    driver.prog = "roundtrip" =>
        /\ phase \in {"ready", "run", "exited"}
        /\ (driver.stage = "widen" /\ phase = "exited") =>
              /\ exit.succ = 0
              /\ Len(exit.args) = 1
              /\ exit.args[1].ty = "felt252"
        /\ (driver.stage = "narrow" /\ phase = "exited") =>
              /\ exit.succ = 0
              /\ exit.args = <<Val("RangeCheck", driver.rc), U(driver.lhs)>>
        /\ driver.stage = "done" =>
              /\ driver.outcome = "success"
              /\ driver.q = driver.lhs

\* The widened 2^W - 1 has left Narrow on successor 0 as 2^W - 1.
C6_Witness ==
    /\ driver.prog = "roundtrip"
    /\ driver.stage = "narrow"
    /\ driver.lhs = UMax
    /\ phase = "exited"
    /\ argv[2] = Val("felt252", UMax)
    /\ exit.succ = 0
    /\ exit.args[2] = U(UMax)

(***************************************************************************)
(* C10: the Divmod fragment has no branch on the divisor: whatever the     *)
(* divisor, it is the divide, the remainder and one unconditional br.      *)
(* When the program runs Is-Zero on the divisor and enters the Divmod      *)
(* fragment only from Is-Zero's non-zero edge, no execution reaches the    *)
(* divide or the remainder with a zero divisor, every run with b = 0 ends  *)
(* in the failure outcome with no quotient or remainder produced, and      *)
(* every run with b # 0 ends in the success outcome with                   *)
(* (a div b, a mod b).                                                     *)
(***************************************************************************)
OpNames(ops) == [i \in 1 .. Len(ops) |-> ops[i].name]
DivmodFragment == build(ParamTypes("Divmod"), TRUE, Sel("Divmod", "", 0)).blocks

C10_Safety ==
    driver.prog = "divmod" =>
        /\ phase \in {"ready", "run", "exited"}
        /\ Len(DivmodFragment) = 1
        /\ OpNames(DivmodFragment[EntryBlock]) = <<"arith.divui", "arith.remui", "cf.br">>
        /\ (selector.kind = "Divmod" /\ Lowered) => blocks = DivmodFragment
        /\ (AtOp /\ CurrentOp.name \in {"arith.divui", "arith.remui"}) =>
              Lookup(CurrentOp.operands[2]).v # 0
        /\ driver.rhs = 0 =>
              /\ selector.kind = "IsZero"
              /\ driver.outcome # "success"
              /\ driver.stage = "done" =>
                    driver.outcome = "failure" /\ driver.q = 0 /\ driver.r = 0
        /\ (driver.rhs # 0 /\ driver.stage = "done") =>
              /\ driver.outcome = "success"
              /\ driver.q = driver.lhs \div driver.rhs
              /\ driver.r = driver.lhs % driver.rhs

C10_DivideByZeroByComposition ==
    /\ []C10_Safety
    /\ (driver.prog = "divmod") ~> (driver.stage = "done")

\* A run with divisor 0 has ended in the failure outcome, the Divmod
\* fragment never entered.
C10_Witness ==
    /\ driver.prog = "divmod"
    /\ driver.stage = "done"
    /\ driver.rhs = 0
    /\ driver.lhs = UMax
    /\ driver.outcome = "failure"
    /\ selector.kind = "IsZero"

\* A run with a non-zero divisor has ended with quotient and remainder.
C10_WitnessSuccess ==
    /\ driver.prog = "divmod"
    /\ driver.stage = "done"
    /\ driver.lhs = UMax /\ driver.rhs = 2
    /\ driver.outcome = "success"
    /\ driver.q = (UMax - 1) \div 2 /\ driver.r = 1

(***************************************************************************)
(* The values an operation uses: its operands and the arguments of its     *)
(* edges.                                                                  *)
(***************************************************************************)
Uses(op) ==
    {op.operands[j] : j \in 1 .. Len(op.operands)}
    \cup UNION {{op.dests[d].args[j] : j \in 1 .. Len(op.dests[d].args)} :
                d \in 1 .. Len(op.dests)}

\* x is a value the i-th operation of block b may use: an argument of the
\* entry block, or the result of a value-producing operation that comes
\* earlier in the same block or before the terminator of the entry block.
DefinedFor(x, b, i) ==
    IF x.k = "arg" THEN x.i >= 0 /\ x.i < Len(entryArgs)
    ELSE /\ x.b \in {EntryBlock, b}
         /\ x.i >= 1
         /\ x.i < (IF x.b = b THEN i ELSE Len(blocks[EntryBlock]))
         /\ ~IsTerminator(blocks[x.b][x.i])
         /\ blocks[x.b][x.i].ty # ""

(***************************************************************************)
(* C11: after a lowering routine has returned Ok, every block it appended  *)
(* to (the entry block, and the success and failure blocks of              *)
(* Narrow-from-Field) holds exactly one terminator, as its last operation, *)
(* so no value-producing operation follows a terminator; every value used  *)
(* in a block is an argument of the entry block or is defined earlier in   *)
(* the entry block or in the same block; and the execution of the fragment *)
(* only reads values already computed.                                     *)
(***************************************************************************)
C11_BlockWellFormed ==
    Lowered =>
        /\ Len(blocks) = IF selector.kind = "FromFelt252" THEN 3 ELSE 1
        /\ \A b \in 1 .. Len(blocks) :
              /\ Len(blocks[b]) >= 1
              /\ {i \in 1 .. Len(blocks[b]) : IsTerminator(blocks[b][i])}
                    = {Len(blocks[b])}
              /\ \A i \in 1 .. Len(blocks[b]) :
                    /\ ~IsTerminator(blocks[b][i]) => blocks[b][i].ty # ""
                    /\ \A x \in Uses(blocks[b][i]) : DefinedFor(x, b, i)
        /\ AtOp =>
              \A x \in Uses(CurrentOp) :
                  x.k = "res" => x.i <= Len(vals[x.b])

\* Narrow-from-Field has run through its success block, which used the
\* entry block's arguments and its own truncation, up to its br.
C11_Witness ==
    /\ Left("FromFelt252")
    /\ Len(blocks) = 3
    /\ pc = [b |-> BlockSuccess, i |-> Len(blocks[BlockSuccess])]
    /\ Uses(blocks[BlockSuccess][pc.i]) = {Arg(0), Res(BlockSuccess, 1)}
    /\ IsTerminator(blocks[BlockFailure][Len(blocks[BlockFailure])])
====
